---- MODULE Spec2Model ----
(***************************************************************************)
(* The mini-home 3D room: the scene graph built at startup, the deferred   *)
(* picture frames, the frame loop, the resize handler, the mode toggle and *)
(* the orbit controls, for both the non-module and the module variant.     *)
(*                                                                         *)
(* Units: lengths are in thousandths of a world unit, Y rotations in       *)
(* quarter turns (Math.PI / 2 = 1), scales in thousandths, camera and      *)
(* orbit-target coordinates in tenths of a world unit.                     *)
(***************************************************************************)
EXTENDS Integers, Sequences, FiniteSets, TLC

VARIABLES
  variant,        \* "nonmodule" (main.js) or "module" (main_module_backup.js)
  dom,            \* which elements the host page has: container, overlay, toggle
  pc,             \* position of the synchronous startup script
  win,            \* <<window.innerWidth, window.innerHeight>>
  scene,          \* children of the world root, in insertion order
  heap,           \* the scene objects allocated so far, by identity
  placed,         \* number of assemblies placed so far by the placement block
  load,           \* per picture: "none", "inflight", "loaded", "error"
  fetches,        \* per picture: number of textureLoader.load calls issued
  camera,         \* [dist2, theta, aspect, projAspect]
  controls,       \* [pan, scaleExp, thetaDelta, panDelta]
  rendererSize,   \* <<width, height>> of the output surface
  harness,        \* "idle" or "running"
  rafPending,     \* frame callbacks registered with the host and not yet run
  tick,           \* parity of the number of runs of animate so far
  frameLog,       \* calls made by the last run of animate, in order
  lastRender,     \* what the last renderer.render call rasterized
  overlayDisplay, \* overlay.style.display
  display         \* [checked, container, static]: the toggle and the two surfaces

vars == <<variant, dom, pc, win, scene, heap, placed, load, fetches, camera, controls,
          rendererSize, harness, rafPending, tick, frameLog, lastRender,
          overlayDisplay, display>>

----------------------------------------------------------------------------
(* Bounds of the model *)

MaxDim == 2
MaxZoom == 1
MaxOrbit == 2
MaxPan == 1
MaxLoads == 2        \* pictures whose load settles while the window is resized
MaxShuffled == 4     \* leading entries of the placement block taken in any order
MaxCalls == 2        \* calls of one assembly constructor
MaxMutations == 2    \* changes made to the instances it returned

Dims == 1..MaxDim
Sizes == {<<w, h>> : w \in Dims, h \in Dims}

----------------------------------------------------------------------------
(* Plain helpers *)

Min(a, b) == IF a < b THEN a ELSE b
Max(a, b) == IF a > b THEN a ELSE b
Abs(a) == IF a < 0 THEN -a ELSE a

RECURSIVE Gcd(_, _)
Gcd(a, b) == IF b = 0 THEN a ELSE Gcd(b, a % b)

----------------------------------------------------------------------------
(* Variants and their constants *)

Variants == {"nonmodule", "module"}

\* camera.position.set(...), in tenths
CameraPosition(v) == IF v = "nonmodule" THEN <<100, 80, 100>> ELSE <<80, 60, 120>>

\* controls.target.set(...), in tenths
ControlsTarget(v) == IF v = "nonmodule" THEN <<45, 15, 35>> ELSE <<0, 20, 0>>

\* controls.minDistance / controls.maxDistance, in world units
MinDistance(v) == IF v = "nonmodule" THEN 5 ELSE 3

\* A maxDistance with a digit too many.
MaxDistanceLoose(v) == IF v = "nonmodule" THEN 250 ELSE 300

MaxDistance(v) == IF v = "nonmodule" THEN 25 ELSE 30

\* Squared length of a - b, for vectors in tenths: the unit is 1/100.
Dist2(a, b) == (a[1] - b[1]) * (a[1] - b[1]) + (a[2] - b[2]) * (a[2] - b[2])
               + (a[3] - b[3]) * (a[3] - b[3])

\* The square of a distance given in world units, in the unit of Dist2.
Sq100(d) == d * d * 100

\* window.innerWidth / window.innerHeight as a fraction in lowest terms.
Ratio(w, h) == <<w \div Gcd(w, h), h \div Gcd(w, h)>>

----------------------------------------------------------------------------
(* Scene graph nodes *)

Node(id, kind, position, rotationY, scale, children) ==
  [id |-> id, kind |-> kind, position |-> position, rotationY |-> rotationY,
   scale |-> scale, children |-> children]

Origin == <<0, 0, 0>>
UnitScale == <<1000, 1000, 1000>>

\* new THREE.Group(): at the origin, unrotated, unit scale, no children
NewGroup(id) == Node(id, "group", Origin, 0, UnitScale, <<>>)

\* new THREE.Mesh(...)
NewMesh(id, position) == Node(id, "mesh", position, 0, UnitScale, <<>>)

\* parent.add(child): Object3D.add detaches the child from its present
\* parent and appends it to the children of the new one.
SceneAdd(children, node) ==
  Append(SelectSeq(children, LAMBDA n : n.id # node.id), node)

GroupAdd(group, child) ==
  [group EXCEPT !.children = SceneAdd(group.children, child)]

SetPosition(node, p) == [node EXCEPT !.position = p]
SetRotationY(node, r) == [node EXCEPT !.rotationY = r]
SetScale(node, s) == [node EXCEPT !.scale = s]

Ids(children) == {children[i].id : i \in 1..Len(children)}

\* The lights added to the scene before the room is built.
Lights(v) ==
  IF v = "nonmodule"
  THEN << Node("ambientLight", "light", Origin, 0, UnitScale, <<>>),
          Node("dirLight", "light", <<8000, 10000, 6000>>, 0, UnitScale, <<>>) >>
  ELSE << Node("ambientLight", "light", Origin, 0, UnitScale, <<>>),
          Node("dirLight", "light", <<5000, 8000, 5000>>, 0, UnitScale, <<>>) >>

\* buildRoom(): the slabs it adds to the scene, in order.
RoomSlabs(v) ==
  IF v = "nonmodule"
  THEN << NewMesh("floorMesh", <<4500, -75, 3500>>),
          NewMesh("backWall", <<4500, 1750, 75>>),
          NewMesh("rightWall", <<8925, 1750, 3500>>) >>
  ELSE << NewMesh("floor", <<0, -50, 0>>),
          NewMesh("backWall", <<0, 2500, -4000>>),
          NewMesh("rightWall", <<5000, 2500, 0>>),
          NewMesh("leftSide", <<-5000, 2500, -2750>>),
          NewMesh("rightSide", <<-5000, 2500, 2750>>),
          NewMesh("topSegment", <<-5000, 4250, 0>>),
          NewMesh("bottomSegment", <<-5000, 750, 0>>) >>

RECURSIVE AddAll(_, _)
AddAll(children, nodes) ==
  IF nodes = <<>> THEN children
  ELSE AddAll(SceneAdd(children, Head(nodes)), Tail(nodes))

----------------------------------------------------------------------------
(* Assembly constructors.  Each returns a fresh group whose members sit at *)
(* their authored local offsets.  Member rotations about X or Z and member *)
(* scales do not move a member's origin and are not recorded.              *)

RECURSIVE Build(_, _)
Build(group, members) ==
  IF members = <<>> THEN group
  ELSE Build(GroupAdd(group, Head(members)), Tail(members))

TailPivot(position) ==
  GroupAdd(SetPosition(NewGroup("tailPivot"), position), NewMesh("tail", <<0, 300, 0>>))

createSofa(v) ==
  Build(NewGroup("sofa"),
        << NewMesh("seat", <<0, 200, 0>>), NewMesh("backrest", <<0, 900, -500>>),
           NewMesh("leftArm", <<-1650, 400, 0>>), NewMesh("rightArm", <<1650, 400, 0>>) >>)

createFridge(v) ==
  Build(NewGroup("fridge"),
        << NewMesh("body", Origin), NewMesh("handle", <<450, 750, 550>>) >>)

createTable(v) ==
  Build(NewGroup("table"),
        << NewMesh("top", <<0, 700, 0>>),
           NewMesh("leg0", <<-950, 300, -450>>), NewMesh("leg1", <<950, 300, -450>>),
           NewMesh("leg2", <<-950, 300, 450>>), NewMesh("leg3", <<950, 300, 450>>) >>)

createCat(v) ==
  IF v = "nonmodule"
  THEN Build(NewGroup("cat"),
        << NewMesh("body", <<0, 300, 0>>), NewMesh("head", <<0, 650, 300>>),
           NewMesh("leftEar", <<-120, 900, 180>>), NewMesh("rightEar", <<120, 900, 180>>),
           TailPivot(<<0, 450, -150>>),
           NewMesh("leftEyeWhite", <<-70, 680, 450>>), NewMesh("rightEyeWhite", <<70, 680, 450>>),
           NewMesh("leftPupil", <<-70, 680, 470>>), NewMesh("rightPupil", <<70, 680, 470>>) >>)
  ELSE Build(NewGroup("cat"),
        << NewMesh("body", <<0, 300, 0>>), NewMesh("head", <<0, 600, 220>>),
           NewMesh("leftEar", <<-80, 800, 180>>), NewMesh("rightEar", <<80, 800, 180>>) >>)

createDog(v) ==
  IF v = "nonmodule"
  THEN Build(NewGroup("dog"),
        << NewMesh("body", <<0, 400, 0>>), NewMesh("head", <<0, 950, 300>>),
           NewMesh("snout", <<0, 900, 550>>), NewMesh("nose", <<0, 900, 680>>),
           NewMesh("leftEar", <<-250, 1150, 200>>), NewMesh("rightEar", <<250, 1150, 200>>),
           NewMesh("leftEyeWhite", <<-120, 960, 550>>), NewMesh("rightEyeWhite", <<120, 960, 550>>),
           NewMesh("leftPupil", <<-120, 960, 580>>), NewMesh("rightPupil", <<120, 960, 580>>),
           NewMesh("leg0", <<-200, 200, -150>>), NewMesh("leg1", <<200, 200, -150>>),
           NewMesh("leg2", <<-200, 200, 150>>), NewMesh("leg3", <<200, 200, 150>>),
           TailPivot(<<0, 600, -350>>) >>)
  ELSE Build(NewGroup("dog"),
        << NewMesh("body", <<0, 350, 0>>), NewMesh("head", <<0, 700, 250>>),
           NewMesh("leftEar", <<-100, 950, 200>>), NewMesh("rightEar", <<100, 950, 200>>) >>)

createPlant ==
  Build(NewGroup("plant"),
        << NewMesh("pot", <<0, 200, 0>>), NewMesh("soil", <<0, 430, 0>>),
           NewMesh("trunk", <<0, 750, 0>>),
           NewMesh("leaf0", <<300, 1000, 0>>), NewMesh("leaf1", <<-300, 1100, 100>>),
           NewMesh("leaf2", <<0, 1100, -300>>) >>)

createClothingRack ==
  Build(NewGroup("rack"),
        << NewMesh("leftPole", <<-500, 1100, 0>>), NewMesh("rightPole", <<500, 1100, 0>>),
           NewMesh("bar", <<0, 2100, 0>>),
           NewMesh("shirt0", <<-350, 1500, 30>>), NewMesh("shirt1", <<0, 1500, -30>>),
           NewMesh("shirt2", <<350, 1500, 30>>) >>)

createShelfWithHats ==
  Build(NewGroup("shelf"),
        << NewMesh("board", Origin),
           NewMesh("hat0", <<-400, 150, 0>>), NewMesh("hat1", <<0, 150, 0>>),
           NewMesh("hat2", <<400, 150, 0>>),
           NewMesh("base", <<-600, 50, 0>>), NewMesh("trophy", <<-600, 250, 0>>) >>)

createDesk ==
  Build(NewGroup("desk"),
        << NewMesh("top", <<0, 550, 0>>),
           NewMesh("leg0", <<-550, 250, -250>>), NewMesh("leg1", <<550, 250, -250>>),
           NewMesh("leg2", <<-550, 250, 250>>), NewMesh("leg3", <<550, 250, 250>>),
           NewMesh("laptopBase", <<100, 620, -50>>), NewMesh("laptopScreen", <<100, 760, -180>>),
           NewMesh("stool", <<-800, 200, 0>>), NewMesh("mug", <<400, 630, 100>>) >>)

createRobotVacuum ==
  Build(NewGroup("robotVacuum"),
        << NewMesh("base", <<0, 25, 0>>), NewMesh("top", <<0, 60, 0>>) >>)

\* createRug returns a bare mesh, not a group.
createRug == NewMesh("rug", <<2500, 10, 1600>>)

createWindow ==
  Build(NewGroup("houseWindow"),
        << NewMesh("view", <<0, 0, -10>>), NewMesh("frame", Origin),
           NewMesh("barH", <<0, 0, 26>>), NewMesh("barV", <<0, 0, 26>>) >>)

createCurtains ==
  Build(NewGroup("curtains"),
        << NewMesh("rod", <<0, 650, 70>>),
           NewMesh("leftPanel", <<-500, 0, 0>>), NewMesh("rightPanel", <<500, 0, 0>>) >>)

createCoffeeMachine ==
  Build(NewGroup("coffeeMachine"),
        << NewMesh("body", <<0, 300, 0>>), NewMesh("spout", <<200, 450, 200>>),
           NewMesh("panel", <<-100, 450, 210>>) >>)

\* One entry of the placement block: construct, scale, rotate, position.
Place(node, scale, rotationY, position) ==
  SetPosition(SetRotationY(SetScale(node, scale), rotationY), position)

Uniform(s) == <<s, s, s>>

\* The placement block: the assemblies in the order they are added.
Placements(v) ==
  IF v = "nonmodule"
  THEN << Place(createSofa(v), UnitScale, 1, <<1800, 0, 3500>>),
          Place(createTable(v), <<900, 1000, 900>>, 0, <<3300, 0, 3500>>),
          Place(createRug, <<800, 1000, 800>>, 0, <<3000, 0, 3500>>),
          Place(createPlant, Uniform(800), 0, <<800, 0, 5500>>),
          Place(createClothingRack, Uniform(800), 2, <<2500, 0, 1200>>),
          Place(createShelfWithHats, Uniform(900), 2, <<800, 2500, 1000>>),
          Place(createFridge(v), Uniform(800), 0, <<8000, 1000, 1500>>),
          Place(createCoffeeMachine, Uniform(500), 0, <<8000, 2200, 1500>>),
          Place(createDesk, Uniform(800), -1, <<7800, 0, 3500>>),
          Place(createWindow, UnitScale, -1, <<8970, 1800, 3500>>),
          Place(createCurtains, UnitScale, -1, <<8990, 1800, 3500>>),
          Place(createRobotVacuum, Uniform(800), 0, <<4000, 0, 2000>>),
          Place(createCat(v), Uniform(700), 1, <<9300, 0, 3500>>),
          Place(createDog(v), Uniform(700), -1, <<1800, 500, 3500>>) >>
  ELSE << Place(createSofa(v), UnitScale, 0, <<0, 0, 1200>>),
          Place(createFridge(v), UnitScale, 0, <<3500, 1250, -2500>>),
          Place(createTable(v), UnitScale, 0, <<0, 0, -1500>>),
          Place(createCat(v), UnitScale, 0, <<-5500, 0, 0>>),
          Place(createDog(v), UnitScale, 1, <<500, 500, 1300>>) >>

----------------------------------------------------------------------------
(* Deferred pictures: the five addPictureFrame calls of the non-module     *)
(* variant.                                                                *)

Pictures == 1..5

PictureCalls ==
  << [path |-> "assets/logo21.jpg", width |-> 900, height |-> 900,
      frameThickness |-> 80, position |-> <<2500, 2400, 80>>, rotationY |-> 0],
     [path |-> "assets/tattoo.jpg", width |-> 900, height |-> 900,
      frameThickness |-> 80, position |-> <<4500, 2400, 80>>, rotationY |-> 0],
     [path |-> "assets/cat_photo.jpg", width |-> 900, height |-> 900,
      frameThickness |-> 80, position |-> <<6500, 2400, 80>>, rotationY |-> 0],
     [path |-> "assets/friend_top.jpg", width |-> 800, height |-> 1000,
      frameThickness |-> 80, position |-> <<8850, 2400, 4500>>, rotationY |-> -1],
     [path |-> "assets/ready_player_one.jpg", width |-> 800, height |-> 1200,
      frameThickness |-> 80, position |-> <<8850, 1800, 2500>>, rotationY |-> -1] >>

\* textureLoader.load(imagePath, callback): one fetch of the path is issued.
IssueFetchTwice(count) == count + 2

IssueFetch(count) == count + 1

\* The callback without group.rotation.y = rotationY.
PictureGroupUnrotated(c) ==
  LET g1 == GroupAdd(NewGroup(c.path),
                     NewMesh("picMesh", <<0, 0, (c.frameThickness * 6) \div 10>>))
      g2 == GroupAdd(g1, NewMesh("frameMesh", Origin))
  IN  SetPosition(g2, c.position)

\* The load callback of addPictureFrame: builds the framed picture and
\* attaches it to the scene.  The group is complete before scene.add.
PictureGroup(c) ==
  LET group == NewGroup(c.path)
      picMesh == NewMesh("picMesh", <<0, 0, (c.frameThickness * 6) \div 10>>)
      g1 == GroupAdd(group, picMesh)
      frameMesh == NewMesh("frameMesh", Origin)
      g2 == GroupAdd(g1, frameMesh)
      g3 == SetPosition(g2, c.position)
  IN  SetRotationY(g3, c.rotationY)

\* A callback that fills and re-adds one group shared by all pictures: the
\* add detaches the group from where the previous picture had put it.
OnLoadSharedGroup(children, c) ==
  SceneAdd(SelectSeq(children, LAMBDA n : n.kind # "group" \/ Len(n.children) # 2
                                          \/ n.children[1].id # "picMesh"),
           PictureGroup(c))

\* A callback that attaches the group without its frame box.
OnLoadFrameless(children, c) ==
  SceneAdd(children,
           SetRotationY(SetPosition(GroupAdd(NewGroup(c.path),
               NewMesh("picMesh", <<0, 0, (c.frameThickness * 6) \div 10>>)),
               c.position), c.rotationY))

OnLoad(children, c) == SceneAdd(children, PictureGroup(c))

\* An error callback that mounts an empty placeholder frame.
OnErrorPlaceholder(children, c) == SceneAdd(children, NewGroup(c.path))

\* textureLoader.load is called without an onError callback: a failed
\* load runs no code of the program.
OnError(children, c) == children

----------------------------------------------------------------------------
(* Object identity.  Every `new` of the program yields an object of its    *)
(* own; an object is named by the function that allocated it, the number   *)
(* of the call of that function, and the variable that holds it.  The heap *)
(* records, for every scene object, its parent, its children and how often *)
(* it was passed to add, next to the transform of its node.                *)

None == <<"", 0, "">>

\* new THREE.Scene()
SceneRoot == <<"main", 1, "scene">>

\* The meshes of each constructor: <<mesh, geometry variable, material
\* variable>>.  Meshes made in a loop are numbered.
Parts(c, v) ==
  CASE c = "sofa" ->
         << <<"seat", "seatGeom", "seatMat">>, <<"backrest", "backGeom", "backMat">>,
            <<"leftArm", "armGeom", "armMat">>, <<"rightArm", "armGeom", "armMat">> >>
    [] c = "fridge" ->
         << <<"body", "bodyGeom", "bodyMat">>, <<"handle", "handleGeom", "handleMat">> >>
    [] c = "table" ->
         << <<"top", "topGeom", "woodMat">>, <<"leg0", "legGeom", "woodMat">>,
            <<"leg1", "legGeom", "woodMat">>, <<"leg2", "legGeom", "woodMat">>,
            <<"leg3", "legGeom", "woodMat">> >>
    [] c = "cat" ->
         IF v = "nonmodule"
         THEN << <<"body", "bodyGeom", "furMat">>, <<"head", "headGeom", "furMat">>,
                 <<"leftEar", "earGeom", "furMat">>, <<"rightEar", "earGeom", "furMat">>,
                 <<"tail", "tailGeom", "furMat">>,
                 <<"leftEyeWhite", "eyeWhiteGeom", "eyeWhiteMat">>,
                 <<"rightEyeWhite", "eyeWhiteGeom", "eyeWhiteMat">>,
                 <<"leftPupil", "eyePupilGeom", "eyePupilMat">>,
                 <<"rightPupil", "eyePupilGeom", "eyePupilMat">> >>
         ELSE << <<"body", "bodyGeom", "mat">>, <<"head", "headGeom", "mat">>,
                 <<"leftEar", "earGeom", "mat">>, <<"rightEar", "earGeom", "mat">> >>
    [] c = "dog" ->
         IF v = "nonmodule"
         THEN << <<"body", "bodyGeom", "furMat">>, <<"head", "headGeom", "furMat">>,
                 <<"snout", "snoutGeom", "furMat">>, <<"nose", "noseGeom", "noseMat">>,
                 <<"leftEar", "earGeom", "furMat">>, <<"rightEar", "earGeom", "furMat">>,
                 <<"leftEyeWhite", "eyeWhiteGeom", "eyeWhiteMat">>,
                 <<"rightEyeWhite", "eyeWhiteGeom", "eyeWhiteMat">>,
                 <<"leftPupil", "eyePupilGeom", "eyePupilMat">>,
                 <<"rightPupil", "eyePupilGeom", "eyePupilMat">>,
                 <<"leg0", "legGeom", "furMat">>, <<"leg1", "legGeom", "furMat">>,
                 <<"leg2", "legGeom", "furMat">>, <<"leg3", "legGeom", "furMat">>,
                 <<"tail", "tailGeom", "furMat">> >>
         ELSE << <<"body", "bodyGeom", "mat">>, <<"head", "headGeom", "mat">>,
                 <<"leftEar", "earGeom", "mat">>, <<"rightEar", "earGeom", "mat">> >>
    [] c = "plant" ->
         << <<"pot", "potGeom", "potMat">>, <<"soil", "soilGeom", "soilMat">>,
            <<"trunk", "trunkGeom", "trunkMat">>, <<"leaf0", "leafGeom", "leafMat">>,
            <<"leaf1", "leafGeom", "leafMat">>, <<"leaf2", "leafGeom", "leafMat">> >>
    [] c = "rack" ->
         << <<"leftPole", "poleGeom", "poleMat">>, <<"rightPole", "poleGeom", "poleMat">>,
            <<"bar", "barGeom", "poleMat">>, <<"shirt0", "shirtGeom", "mat0">>,
            <<"shirt1", "shirtGeom", "mat1">>, <<"shirt2", "shirtGeom", "mat2">> >>
    [] c = "shelf" ->
         << <<"board", "boardGeom", "boardMat">>, <<"hat0", "hatGeom", "hatMat">>,
            <<"hat1", "hatGeom", "hatMat">>, <<"hat2", "hatGeom", "hatMat">>,
            <<"base", "baseGeom", "baseMat">>, <<"trophy", "trophyGeom", "trophyMat">> >>
    [] c = "desk" ->
         << <<"top", "topGeom", "woodMat">>, <<"leg0", "legGeom", "woodMat">>,
            <<"leg1", "legGeom", "woodMat">>, <<"leg2", "legGeom", "woodMat">>,
            <<"leg3", "legGeom", "woodMat">>, <<"laptopBase", "baseGeom", "baseMat">>,
            <<"laptopScreen", "screenGeom", "screenMat">>,
            <<"stool", "stoolGeom", "stoolMat">>, <<"mug", "mugGeom", "mugMat">> >>
    [] c = "robotVacuum" ->
         << <<"base", "baseGeom", "baseMat">>, <<"top", "topGeom", "topMat">> >>
    [] c = "rug" -> << <<"rug", "rugGeom", "rugMat">> >>
    [] c = "houseWindow" ->
         << <<"view", "viewGeom", "viewMat">>, <<"frame", "frameGeom", "frameMat">>,
            <<"barH", "barGeomH", "barMat">>, <<"barV", "barGeomV", "barMat">> >>
    [] c = "curtains" ->
         << <<"rod", "rodGeom", "rodMat">>, <<"leftPanel", "panelGeom", "panelMat">>,
            <<"rightPanel", "panelGeom", "panelMat">> >>
    [] c = "coffeeMachine" ->
         << <<"body", "bodyGeom", "bodyMat">>, <<"spout", "spoutGeom", "spoutMat">>,
            <<"panel", "panelGeom", "panelMat">> >>
    [] c = "buildRoom" ->
         IF v = "nonmodule"
         THEN << <<"floorMesh", "floorGeom", "floorMat">>,
                 <<"backWall", "backWallGeom", "wallMat">>,
                 <<"rightWall", "rightWallGeom", "wallMat">> >>
         ELSE << <<"floor", "floor.geometry", "floor.material">>,
                 <<"backWall", "backWall.geometry", "backWall.material">>,
                 <<"rightWall", "rightWall.geometry", "rightWall.material">>,
                 <<"leftSide", "leftSide.geometry", "leftSide.material">>,
                 <<"rightSide", "rightSide.geometry", "rightSide.material">>,
                 <<"topSegment", "topSegment.geometry", "topSegment.material">>,
                 <<"bottomSegment", "bottomSegment.geometry",
                   "bottomSegment.material">> >>
    [] OTHER ->  \* the load callback of addPictureFrame
         << <<"picMesh", "picGeom", "picMat">>, <<"frameMesh", "frameGeom", "frameMat">> >>

PartOf(c, v, id) ==
  LET parts == Parts(c, v)
  IN  parts[CHOOSE i \in 1..Len(parts) : parts[i][1] = id]

\* A geometry or material created once, outside the constructor.
ResourceIdHoisted(c, k, name) == <<c, 0, name>>

\* const x = new THREE.<...>Geometry / <...>Material inside a function body:
\* call k of function c gets an object of its own.
ResourceId(c, k, name) == <<c, k, name>>

\* The heap objects of node n and of its members, for call k of function c.
RECURSIVE Allocate(_, _, _, _, _)
RECURSIVE AllocateAll(_, _, _, _, _)
Allocate(n, parent, c, v, k) ==
  LET self == <<c, k, n.id>>
      isMesh == n.kind = "mesh"
  IN  (self :> [kind |-> n.kind, parent |-> parent,
                adds |-> IF parent = None THEN 0 ELSE 1,
                children |-> [i \in 1..Len(n.children) |-> <<c, k, n.children[i].id>>],
                position |-> n.position, rotationY |-> n.rotationY, scale |-> n.scale,
                geometry |-> IF isMesh THEN ResourceId(c, k, PartOf(c, v, n.id)[2])
                             ELSE None,
                material |-> IF isMesh THEN ResourceId(c, k, PartOf(c, v, n.id)[3])
                             ELSE None])
      @@ AllocateAll(n.children, self, c, v, k)
AllocateAll(nodes, parent, c, v, k) ==
  IF nodes = <<>> THEN <<>>
  ELSE Allocate(Head(nodes), parent, c, v, k) @@ AllocateAll(Tail(nodes), parent, c, v, k)

\* The heap before the script runs.
EmptyHeap == <<>>

\* new THREE.Scene()
NewScene ==
  SceneRoot :> [kind |-> "scene", parent |-> None, adds |-> 0, children |-> <<>>,
                position |-> Origin, rotationY |-> 0, scale |-> UnitScale,
                geometry |-> None, material |-> None]

\* parent.add(child) on the heap: Object3D.add removes the child from the
\* children of its present parent before it appends it to the new one.
Attach(h, p, c) ==
  LET old == h[c].parent
      h1 == IF old = None THEN h
            ELSE [h EXCEPT ![old].children = SelectSeq(@, LAMBDA x : x # c)]
  IN  [h1 EXCEPT ![p].children = Append(@, c), ![c].parent = p, ![c].adds = @ + 1]

\* scene.add(x) for the object that variable x holds: node n, allocated by
\* the single call of function c.  Adding a variable again re-attaches the
\* object it holds.
HeapAdd(h, n, c, v) ==
  LET root == <<c, 1, n.id>>
      h1 == IF root \in DOMAIN h THEN h ELSE h @@ Allocate(n, None, c, v, 1)
  IN  Attach(h1, SceneRoot, root)

RECURSIVE HeapAddAll(_, _, _, _)
HeapAddAll(h, nodes, c, v) ==
  IF nodes = <<>> THEN h
  ELSE HeapAddAll(HeapAdd(h, Head(nodes), c, v), Tail(nodes), c, v)

\* The assembly constructors by the variable that holds their result.
ConstructorNames(v) ==
  IF v = "nonmodule"
  THEN {"sofa", "table", "rug", "plant", "rack", "shelf", "fridge", "coffeeMachine",
        "desk", "houseWindow", "curtains", "robotVacuum", "cat", "dog"}
  ELSE {"sofa", "fridge", "table", "cat", "dog"}

Constructor(c, v) ==
  CASE c = "sofa" -> createSofa(v)
    [] c = "fridge" -> createFridge(v)
    [] c = "table" -> createTable(v)
    [] c = "cat" -> createCat(v)
    [] c = "dog" -> createDog(v)
    [] c = "plant" -> createPlant
    [] c = "rack" -> createClothingRack
    [] c = "shelf" -> createShelfWithHats
    [] c = "desk" -> createDesk
    [] c = "robotVacuum" -> createRobotVacuum
    [] c = "rug" -> createRug
    [] c = "houseWindow" -> createWindow
    [] c = "curtains" -> createCurtains
    [] c = "coffeeMachine" -> createCoffeeMachine

\* The objects in the sub-tree of o, and the geometries and materials they
\* draw.
RECURSIVE Descendants(_, _)
Descendants(h, o) ==
  {o} \cup UNION {Descendants(h, h[o].children[i]) : i \in 1..Len(h[o].children)}

Resources(h, os) == ({h[o].geometry : o \in os} \cup {h[o].material : o \in os}) \ {None}

Owned(h, r) == Descendants(h, r) \cup Resources(h, Descendants(h, r))

----------------------------------------------------------------------------
(* Camera rig and orbit controls *)

\* controls.dampingFactor = 0.05, in percent
DampingPercent == 5

\* The number of azimuth steps of a full turn.
OrbitSteps == 4

\* new THREE.PerspectiveCamera(60, innerWidth / innerHeight, ...) followed by
\* camera.position.set: the constructor computes the projection matrix.
NewCamera(v, size) ==
  [dist2 |-> Dist2(CameraPosition(v), ControlsTarget(v)), theta |-> 0,
   aspect |-> Ratio(size[1], size[2]), projAspect |-> Ratio(size[1], size[2])]

\* new OrbitControls(camera, renderer.domElement) and its settings: no
\* pending rotation, zoom or pan; target is the shift of the orbit target
\* from controls.target.set(...).
NewControls == [target |-> 0, scaleExp |-> 0, thetaDelta |-> 0, panDelta |-> 0]

\* A pending delta after one damping step: multiplied by 1 - dampingFactor,
\* rounded towards zero.
Damp(d) ==
  IF d < 0 THEN -(((-d) * (100 - DampingPercent)) \div 100)
  ELSE (d * (100 - DampingPercent)) \div 100

RECURSIVE Pow4(_)
Pow4(n) == IF n = 0 THEN 1 ELSE 4 * Pow4(n - 1)

\* The squared distance after the radius is scaled by 2^e.
Dolly(d2, e) == IF e >= 0 THEN d2 * Pow4(e) ELSE d2 \div Pow4(-e)

Clamp(x, lo, hi) == Max(lo, Min(hi, x))

\* controls.update(): applies the pending rotation, zoom and pan, clamps the
\* orbit distance to [minDistance, maxDistance] and damps what is pending.
UpdatedCamera(cam, ctl, v) ==
  [cam EXCEPT !.theta = (cam.theta + ctl.thetaDelta) % OrbitSteps,
              !.dist2 = Clamp(Dolly(cam.dist2, ctl.scaleExp),
                              Sq100(MinDistance(v)), Sq100(MaxDistance(v)))]

UpdatedControls(ctl) ==
  [target |-> ctl.target + ctl.panDelta, scaleExp |-> 0,
   thetaDelta |-> Damp(ctl.thetaDelta), panDelta |-> Damp(ctl.panDelta)]

\* A resize listener without camera.updateProjectionMatrix().
ResizedCameraStale(cam, w, h) == [cam EXCEPT !.aspect = Ratio(w, h)]

\* The resize listener's statements on the camera.
ResizedCamera(cam, w, h) ==
  LET c1 == [cam EXCEPT !.aspect = Ratio(w, h)]      \* camera.aspect = w / h
  IN  [c1 EXCEPT !.projAspect = c1.aspect]           \* updateProjectionMatrix()

\* renderer.setSize(w, h)
SetSize(w, h) == <<w, h>>

----------------------------------------------------------------------------
(* The frame loop *)

\* animate without its requestAnimationFrame call
RequestFrameDropped(pending) == pending

\* requestAnimationFrame(animate): one more callback pending with the host
RequestFrame(pending) == pending + 1

\* renderer.render(scene, camera): what is rasterized
Render(children, cam, ctl, size) ==
  [scene |-> children, camera |-> cam, target |-> ctl.target, size |-> size]

AnimateLog == <<"requestAnimationFrame", "controls.update", "renderer.render">>

\* animate with the render before the controls update.
AnimateBodyRenderFirst(pending) ==
  /\ rafPending' = RequestFrame(pending)
  /\ lastRender' = Render(scene, camera, controls, rendererSize)
  /\ camera' = UpdatedCamera(camera, controls, variant)
  /\ controls' = UpdatedControls(controls)
  /\ frameLog' = <<"requestAnimationFrame", "renderer.render", "controls.update">>
  /\ tick' = ~tick

\* The body of animate(), started with `pending` callbacks left at the host.
AnimateBody(pending) ==
  /\ rafPending' = RequestFrame(pending)
  /\ camera' = UpdatedCamera(camera, controls, variant)
  /\ controls' = UpdatedControls(controls)
  /\ lastRender' = Render(scene, camera', controls', rendererSize)
  /\ frameLog' = AnimateLog
  /\ tick' = ~tick

----------------------------------------------------------------------------
(* Initial state: the page before the script runs *)

Doms ==
  {d \in [container : BOOLEAN, overlay : BOOLEAN, toggle : BOOLEAN, checked : BOOLEAN] :
     (~d.toggle => ~d.checked)}

NoPictures == [p \in Pictures |-> "none"]

FullPages == {d \in Doms : d.container /\ d.overlay /\ d.toggle /\ d.checked}

\* The page before the script runs, for the given pages and window sizes.
InitHost(doms, sizes) ==
  /\ variant \in Variants
  /\ dom \in doms \cup {d \in Doms : ~d.overlay /\ ~d.toggle}
  /\ (variant = "module" => ~dom.overlay /\ ~dom.toggle)
  /\ pc = "start"
  /\ win \in sizes
  /\ scene = <<>>
  /\ heap = EmptyHeap
  /\ placed = 0
  /\ load = NoPictures
  /\ fetches = [p \in Pictures |-> 0]
  /\ camera = NewCamera(variant, win)
  /\ controls = NewControls
  /\ rendererSize = <<0, 0>>
  /\ harness = "idle"
  /\ rafPending = 0
  /\ tick = FALSE
  /\ frameLog = <<>>
  /\ lastRender = Render(<<>>, camera, controls, <<0, 0>>)
  /\ overlayDisplay = ""
  /\ display = [checked |-> dom.checked, container |-> "", static |-> ""]

\* A page with every element, in a window of one size.
Init == InitHost(FullPages, {<<MaxDim, 1>>})

\* One page per variant, for what does not read the page: the full page of
\* the non-module variant, the bare container of the module variant.
InitOnePage == Init /\ dom.container /\ (dom.overlay <=> variant = "nonmodule")

\* Every page, in a window of any size.
InitViewport == InitHost(Doms, Sizes)

----------------------------------------------------------------------------
(* Synchronous startup *)

\* A setup whose append of the canvas does nothing without a container.
SetupUnguarded ==
  /\ pc = "start"
  /\ heap' = heap @@ NewScene
  /\ camera' = NewCamera(variant, win)
  /\ rendererSize' = SetSize(win[1], win[2])
  /\ controls' = NewControls
  /\ pc' = "lights"
  /\ UNCHANGED <<variant, dom, win, scene, placed, load, fetches, harness, rafPending,
                 tick, frameLog, lastRender, overlayDisplay, display>>

\* Container lookup, scene, camera, renderer, controls, resize listener.
\* Without a container element, container.appendChild throws: the scene,
\* the camera and the renderer exist by then, the controls do not.
Setup ==
  /\ pc = "start"
  /\ heap' = heap @@ NewScene
  /\ camera' = NewCamera(variant, win)
  /\ rendererSize' = SetSize(win[1], win[2])
  /\ IF dom.container
     THEN /\ controls' = NewControls
          /\ pc' = "lights"
     ELSE /\ pc' = "fault"
          /\ UNCHANGED controls
  /\ UNCHANGED <<variant, dom, win, scene, placed, load, fetches, harness, rafPending,
                 tick, frameLog, lastRender, overlayDisplay, display>>

AddLights ==
  /\ pc = "lights"
  /\ scene' = AddAll(scene, Lights(variant))
  /\ heap' = HeapAddAll(heap, Lights(variant), "main", variant)
  /\ pc' = "room"
  /\ UNCHANGED <<variant, dom, win, placed, load, fetches, camera, controls, rendererSize,
                 harness, rafPending, tick, frameLog, lastRender, overlayDisplay,
                 display>>

BuildRoom ==
  /\ pc = "room"
  /\ scene' = AddAll(scene, RoomSlabs(variant))
  /\ heap' = HeapAddAll(heap, RoomSlabs(variant), "buildRoom", variant)
  /\ pc' = "place"
  /\ UNCHANGED <<variant, dom, win, placed, load, fetches, camera, controls, rendererSize,
                 harness, rafPending, tick, frameLog, lastRender, overlayDisplay,
                 display>>

\* A placement block whose scene.add names the variable of the entry before.
PlaceAssemblyPrevious ==
  /\ pc = "place"
  /\ placed < Len(Placements(variant))
  /\ LET x == Placements(variant)[Max(placed, 1)]
     IN  /\ scene' = SceneAdd(scene, x)
         /\ heap' = HeapAdd(heap, x, x.id, variant)
  /\ placed' = placed + 1
  /\ pc' = IF placed' < Len(Placements(variant)) THEN "place"
           ELSE IF variant = "nonmodule" THEN "pictures" ELSE "animate"
  /\ UNCHANGED <<variant, dom, win, load, fetches, camera, controls, rendererSize,
                 harness, rafPending, tick, frameLog, lastRender, overlayDisplay,
                 display>>

\* The next entry of the placement block.
PlaceAssembly ==
  /\ pc = "place"
  /\ placed < Len(Placements(variant))
  /\ LET x == Placements(variant)[placed + 1]
     IN  /\ scene' = SceneAdd(scene, x)
         /\ heap' = HeapAdd(heap, x, x.id, variant)
  /\ placed' = placed + 1
  /\ pc' = IF placed' < Len(Placements(variant)) THEN "place"
           ELSE IF variant = "nonmodule" THEN "pictures" ELSE "animate"
  /\ UNCHANGED <<variant, dom, win, load, fetches, camera, controls, rendererSize,
                 harness, rafPending, tick, frameLog, lastRender, overlayDisplay,
                 display>>

\* A placement block that sets each assembly beside the sibling added
\* before it.
PlaceAnyBesidePrevious(i) ==
  /\ pc = "place"
  /\ i \in 1..Len(Placements(variant))
  /\ Placements(variant)[i].id \notin Ids(scene)
  /\ \/ i <= MaxShuffled
     \/ \A j \in 1..(i - 1) : Placements(variant)[j].id \in Ids(scene)
  /\ LET x == Placements(variant)[i]
         y == SetPosition(x, <<x.position[1] + scene[Len(scene)].position[1],
                               x.position[2], x.position[3]>>)
     IN  /\ scene' = SceneAdd(scene, y)
         /\ heap' = HeapAdd(heap, y, y.id, variant)
  /\ placed' = placed + 1
  /\ pc' = IF placed' < Len(Placements(variant)) THEN "place"
           ELSE IF variant = "nonmodule" THEN "pictures" ELSE "animate"
  /\ UNCHANGED <<variant, dom, win, load, fetches, camera, controls, rendererSize,
                 harness, rafPending, tick, frameLog, lastRender, overlayDisplay,
                 display>>

\* The placement block with its entries reordered: entry i is constructed,
\* transformed and added when it has not been yet.  Any of the first
\* MaxShuffled entries may come next; a later entry follows all before it.
PlaceAny(i) ==
  /\ pc = "place"
  /\ i \in 1..Len(Placements(variant))
  /\ Placements(variant)[i].id \notin Ids(scene)
  /\ \/ i <= MaxShuffled
     \/ \A j \in 1..(i - 1) : Placements(variant)[j].id \in Ids(scene)
  /\ LET x == Placements(variant)[i]
     IN  /\ scene' = SceneAdd(scene, x)
         /\ heap' = HeapAdd(heap, x, x.id, variant)
  /\ placed' = placed + 1
  /\ pc' = IF placed' < Len(Placements(variant)) THEN "place"
           ELSE IF variant = "nonmodule" THEN "pictures" ELSE "animate"
  /\ UNCHANGED <<variant, dom, win, load, fetches, camera, controls, rendererSize,
                 harness, rafPending, tick, frameLog, lastRender, overlayDisplay,
                 display>>

\* The next addPictureFrame call: issues the fetch and returns.
AddPictureFrame ==
  /\ pc = "pictures"
  /\ LET p == CHOOSE q \in Pictures :
                /\ load[q] = "none"
                /\ \A r \in Pictures : r < q => load[r] # "none"
     IN  /\ load' = [load EXCEPT ![p] = "inflight"]
         /\ fetches' = [fetches EXCEPT ![p] = IssueFetch(@)]
         /\ pc' = IF p = Len(PictureCalls) THEN "overlay" ELSE "pictures"
  /\ UNCHANGED <<variant, heap, dom, win, scene, placed, camera, controls, rendererSize,
                 harness, rafPending, tick, frameLog, lastRender, overlayDisplay,
                 display>>

\* An overlay hide without the check that the element exists.
HideOverlayUnchecked ==
  /\ pc = "overlay"
  /\ overlayDisplay' = IF dom.overlay THEN "none" ELSE overlayDisplay
  /\ pc' = IF dom.overlay THEN "toggle" ELSE "fault"
  /\ UNCHANGED <<variant, heap, dom, win, scene, placed, load, fetches, camera, controls,
                 rendererSize, harness, rafPending, tick, frameLog, lastRender,
                 display>>

\* const overlay = document.getElementById('overlay'); if (overlay) ...
HideOverlay ==
  /\ pc = "overlay"
  /\ overlayDisplay' = IF dom.overlay THEN "none" ELSE overlayDisplay
  /\ pc' = "toggle"
  /\ UNCHANGED <<variant, heap, dom, win, scene, placed, load, fetches, camera, controls,
                 rendererSize, harness, rafPending, tick, frameLog, lastRender,
                 display>>

\* Registers the change listener when the toggle exists.
RegisterToggle ==
  /\ pc = "toggle"
  /\ pc' = "animate"
  /\ UNCHANGED <<variant, heap, dom, win, scene, placed, load, fetches, camera, controls,
                 rendererSize, harness, rafPending, tick, frameLog, lastRender,
                 overlayDisplay, display>>

\* A script that ends with two calls of animate(): the first leaves a
\* callback with the host and the second adds its own.
StartAnimateTwice ==
  /\ pc = "animate"
  /\ AnimateBody(RequestFrame(rafPending))
  /\ harness' = "running"
  /\ pc' = "done"
  /\ UNCHANGED <<variant, heap, dom, win, scene, placed, load, fetches, rendererSize,
                 overlayDisplay, display>>

\* animate(): the first, synchronous run at the end of the script.
StartAnimate ==
  /\ pc = "animate"
  /\ AnimateBody(rafPending)
  /\ harness' = "running"
  /\ pc' = "done"
  /\ UNCHANGED <<variant, heap, dom, win, scene, placed, load, fetches, rendererSize,
                 overlayDisplay, display>>

----------------------------------------------------------------------------
(* Host events after startup *)

\* A frame loop that waits for the picture loads before it renders.
AnimateFrameAfterLoads ==
  /\ pc = "done"
  /\ rafPending > 0
  /\ \A p \in Pictures : load[p] # "inflight"
  /\ AnimateBody(rafPending - 1)
  /\ UNCHANGED <<variant, heap, dom, pc, win, scene, placed, load, fetches, rendererSize,
                 harness, overlayDisplay, display>>

\* The host runs one pending frame callback.
AnimateFrame ==
  /\ pc = "done"
  /\ rafPending > 0
  /\ AnimateBody(rafPending - 1)
  /\ UNCHANGED <<variant, heap, dom, pc, win, scene, placed, load, fetches, rendererSize,
                 harness, overlayDisplay, display>>

\* A resize listener that also refits the scene to the window.
ResizeRefitting(w, h) ==
  /\ pc = "done"
  /\ <<w, h>> # win
  /\ win' = <<w, h>>
  /\ camera' = ResizedCamera(camera, w, h)
  /\ rendererSize' = SetSize(w, h)
  /\ heap' = [heap EXCEPT ![SceneRoot].scale = Uniform((1000 * w) \div h)]
  /\ UNCHANGED <<variant, dom, pc, scene, placed, load, fetches, controls, harness,
                 rafPending, tick, frameLog, lastRender, overlayDisplay, display>>

\* The window is resized to (w, h) and the resize listener runs.
Resize(w, h) ==
  /\ pc = "done"
  /\ <<w, h>> # win
  /\ win' = <<w, h>>
  /\ camera' = ResizedCamera(camera, w, h)
  /\ rendererSize' = SetSize(w, h)
  /\ UNCHANGED <<variant, heap, dom, pc, scene, placed, load, fetches, controls, harness,
                 rafPending, tick, frameLog, lastRender, overlayDisplay, display>>

\* A loader that runs the callback of a cached image at once, inside the
\* script.
LoadSuccessDuringStartup(p) ==
  /\ pc \in {"pictures", "overlay", "toggle", "animate", "done"}
  /\ load[p] = "inflight"
  /\ load' = [load EXCEPT ![p] = "loaded"]
  /\ scene' = OnLoad(scene, PictureCalls[p])
  /\ heap' = HeapAdd(heap, PictureGroup(PictureCalls[p]), PictureCalls[p].path, variant)
  /\ UNCHANGED <<variant, dom, pc, win, placed, fetches, camera, controls, rendererSize,
                 harness, rafPending, tick, frameLog, lastRender, overlayDisplay,
                 display>>

\* A picture's image has loaded: the load callback runs.
LoadSuccess(p) ==
  /\ pc = "done"
  /\ load[p] = "inflight"
  /\ load' = [load EXCEPT ![p] = "loaded"]
  /\ scene' = OnLoad(scene, PictureCalls[p])
  /\ heap' = HeapAdd(heap, PictureGroup(PictureCalls[p]), PictureCalls[p].path, variant)
  /\ UNCHANGED <<variant, dom, pc, win, placed, fetches, camera, controls, rendererSize,
                 harness, rafPending, tick, frameLog, lastRender, overlayDisplay,
                 display>>

\* A failed load that takes the frame loop down with it.
LoadFailureHalting(p) ==
  /\ pc = "done"
  /\ load[p] = "inflight"
  /\ load' = [load EXCEPT ![p] = "error"]
  /\ scene' = OnError(scene, PictureCalls[p])
  /\ harness' = "idle"
  /\ rafPending' = 0
  /\ UNCHANGED <<variant, heap, dom, pc, win, placed, fetches, camera, controls,
                 rendererSize, tick, frameLog, lastRender, overlayDisplay, display>>

\* A picture's image cannot be fetched or decoded.
LoadFailure(p) ==
  /\ pc = "done"
  /\ load[p] = "inflight"
  /\ load' = [load EXCEPT ![p] = "error"]
  /\ scene' = OnError(scene, PictureCalls[p])
  /\ UNCHANGED <<variant, heap, dom, pc, win, placed, fetches, camera, controls, rendererSize,
                 harness, rafPending, tick, frameLog, lastRender, overlayDisplay,
                 display>>

\* A listener that never hides the container.
ToggledDisplayBothShown(checked) ==
  IF checked THEN [checked |-> checked, container |-> "block", static |-> "none"]
  ELSE [checked |-> checked, container |-> "block", static |-> "flex"]

\* The change listener of the mode toggle.
ToggledDisplay(checked) ==
  IF checked THEN [checked |-> checked, container |-> "block", static |-> "none"]
  ELSE [checked |-> checked, container |-> "none", static |-> "flex"]

ToggleChange ==
  /\ pc = "done"
  /\ variant = "nonmodule"
  /\ dom.toggle
  /\ display' = ToggledDisplay(~display.checked)
  /\ UNCHANGED <<variant, heap, dom, pc, win, scene, placed, load, fetches, camera, controls,
                 rendererSize, harness, rafPending, tick, frameLog, lastRender,
                 overlayDisplay>>

\* Pointer and wheel input on the canvas: the controls record it and apply
\* it at the next update.
Orbit(d) ==
  /\ pc = "done"
  /\ Abs(controls.thetaDelta + d) <= MaxOrbit
  /\ controls' = [controls EXCEPT !.thetaDelta = @ + d]
  /\ UNCHANGED <<variant, heap, dom, pc, win, scene, placed, load, fetches, camera,
                 rendererSize, harness, rafPending, tick, frameLog, lastRender,
                 overlayDisplay, display>>

Zoom(e) ==
  /\ pc = "done"
  /\ Abs(controls.scaleExp + e) <= MaxZoom
  /\ controls' = [controls EXCEPT !.scaleExp = @ + e]
  /\ UNCHANGED <<variant, heap, dom, pc, win, scene, placed, load, fetches, camera,
                 rendererSize, harness, rafPending, tick, frameLog, lastRender,
                 overlayDisplay, display>>

Pan(d) ==
  /\ pc = "done"
  /\ Abs(controls.panDelta + d) <= 1
  /\ Abs(controls.target + controls.panDelta + d) <= MaxPan
  /\ controls' = [controls EXCEPT !.panDelta = @ + d]
  /\ UNCHANGED <<variant, heap, dom, pc, win, scene, placed, load, fetches, camera,
                 rendererSize, harness, rafPending, tick, frameLog, lastRender,
                 overlayDisplay, display>>

----------------------------------------------------------------------------
(* World transforms.  An object's matrix is translation * rotation *      *)
(* scale, and its world matrix is the parent's world matrix times its own. *)
(* Every Y rotation of the program is a multiple of a quarter turn, and    *)
(* every scale the program sets is the same along x and z.                 *)

Cos(q) == CASE q % 4 = 0 -> 1 [] q % 4 = 1 -> 0 [] q % 4 = 2 -> -1 [] q % 4 = 3 -> 0
Sin(q) == CASE q % 4 = 0 -> 0 [] q % 4 = 1 -> 1 [] q % 4 = 2 -> 0 [] q % 4 = 3 -> -1

\* A rotation about Y in the opposite sense.
RotYMirrored(q, p) ==
  <<p[1] * Cos(q) - p[3] * Sin(q), p[2], p[3] * Cos(q) + p[1] * Sin(q)>>

\* rotation.y = q quarter turns applied to point p
RotY(q, p) ==
  <<p[1] * Cos(q) + p[3] * Sin(q), p[2], p[3] * Cos(q) - p[1] * Sin(q)>>

\* scale s (thousandths) applied to p
Scaled(s, p) == <<(s[1] * p[1]) \div 1000, (s[2] * p[2]) \div 1000, (s[3] * p[3]) \div 1000>>

\* The point p of the local space of an object with transform f, in the
\* space of the object's parent.
ToParent(f, p) ==
  LET r == RotY(f.rotationY, Scaled(f.scale, p))
  IN  <<f.position[1] + r[1], f.position[2] + r[2], f.position[3] + r[3]>>

\* Point p of the local space of object a, in world space: through a and
\* then through each of its ancestors.
RECURSIVE Lift(_, _, _)
Lift(h, a, p) == IF a = None THEN p ELSE Lift(h, h[a].parent, ToParent(h[a], p))

\* object.getWorldPosition(): the origin of o in world space
WorldPosition(h, o) == Lift(h, h[o].parent, h[o].position)

\* The world matrix of a child: the parent's world matrix f times the
\* child's matrix g.
Identity == [position |-> Origin, rotationY |-> 0, scale |-> UnitScale]

Compose(f, g) ==
  [position |-> ToParent(f, g.position), rotationY |-> f.rotationY + g.rotationY,
   scale |-> Scaled(f.scale, g.scale)]

\* updateMatrixWorld, from the root down: <<child of the root, object,
\* world position>> for every object listed below children.
RECURSIVE WorldPositions(_, _, _)
WorldPositions(children, frame, top) ==
  UNION {LET n == children[i]
             t == IF top = "" THEN n.id ELSE top
         IN  {<<t, n.id, ToParent(frame, n.position)>>}
             \cup WorldPositions(n.children, Compose(frame, n), t)
         : i \in 1..Len(children)}

\* The child of the root below which o hangs.
RECURSIVE TopOf(_, _)
TopOf(h, o) == IF h[o].parent \in {SceneRoot, None} THEN o ELSE TopOf(h, h[o].parent)

----------------------------------------------------------------------------
(* A caller of the assembly constructors: it calls one constructor up to   *)
(* MaxCalls times and then moves, turns, scales or strips the instances it *)
(* got, before anything is added to the scene.                             *)

\* The instances returned so far: the root objects of the constructors.
Instances(h) == {o \in DOMAIN h : o[1] \in ConstructorNames(variant) /\ o[3] = o[1]}

\* The root of instance r as its constructor returned it.
Fresh(r) == Allocate(Constructor(r[1], variant), None, r[1], variant, r[2])[r]

Mutations(h) ==
  Cardinality({x \in Instances(h) \X {"position", "rotationY", "scale", "children"} :
                 h[x[1]][x[2]] # Fresh(x[1])[x[2]]})

\* const x = createX(): one more call of constructor c.
Construct(c) ==
  /\ pc = "start"
  /\ \A r \in Instances(heap) : r[1] = c
  /\ Cardinality(Instances(heap)) < MaxCalls
  /\ heap' = heap @@ Allocate(Constructor(c, variant), None, c, variant,
                              Cardinality(Instances(heap)) + 1)
  /\ UNCHANGED <<variant, dom, pc, win, scene, placed, load, fetches, camera, controls,
                 rendererSize, harness, rafPending, tick, frameLog, lastRender,
                 overlayDisplay, display>>

\* One change of instance r through field f of its root.
Mutate(r, f, value) ==
  /\ pc = "start"
  /\ Mutations(heap) < MaxMutations
  /\ heap[r][f] = Fresh(r)[f]
  /\ heap' = [heap EXCEPT ![r][f] = value]
  /\ UNCHANGED <<variant, dom, pc, win, scene, placed, load, fetches, camera, controls,
                 rendererSize, harness, rafPending, tick, frameLog, lastRender,
                 overlayDisplay, display>>

\* x.position.set(1, 0, 0)
MoveInstance(r) == Mutate(r, "position", <<1000, 0, 0>>)

\* x.rotation.y = Math.PI / 2
TurnInstance(r) == Mutate(r, "rotationY", 1)

\* x.scale.set(2, 2, 2)
ScaleInstance(r) == Mutate(r, "scale", Uniform(2000))

\* x.remove(x.children[0])
RemoveMember(r) ==
  /\ pc = "start"
  /\ Mutations(heap) < MaxMutations
  /\ heap[r].children = Fresh(r).children
  /\ heap[r].children # <<>>
  /\ heap' = [heap EXCEPT ![r].children = Tail(@),
                          ![Head(heap[r].children)].parent = None]
  /\ UNCHANGED <<variant, dom, pc, win, scene, placed, load, fetches, camera, controls,
                 rendererSize, harness, rafPending, tick, frameLog, lastRender,
                 overlayDisplay, display>>

----------------------------------------------------------------------------
(* Specifications *)

Startup ==
  \/ Setup
  \/ AddLights
  \/ BuildRoom
  \/ PlaceAssembly
  \/ AddPictureFrame
  \/ HideOverlay
  \/ RegisterToggle
  \/ StartAnimate

\* Startup, the frame loop and the picture loads.
Next ==
  \/ Startup
  \/ AnimateFrame
  \/ \E p \in Pictures : LoadSuccess(p)
  \/ \E p \in Pictures : LoadFailure(p)

Spec == Init /\ [][Next]_vars

\* The host runs a pending frame callback at the next display frame.
FairSpec == Spec /\ WF_vars(AnimateFrame)

\* Startup, the frame loop, window resizes and the mode toggle, for every
\* page and window size: the pictures stay in flight.
NextViewport ==
  \/ Startup
  \/ AnimateFrame
  \/ \E s \in Sizes : Resize(s[1], s[2])
  \/ ToggleChange

SpecViewport == InitViewport /\ [][NextViewport]_vars

\* Startup, the frame loop and pointer input on the canvas.
NextControls ==
  \/ Startup
  \/ AnimateFrame
  \/ \E d \in {-1, 1} : Orbit(d)
  \/ \E e \in {-1, 1} : Zoom(e)
  \/ \E d \in {-1, 1} : Pan(d)

SpecControls == InitOnePage /\ [][NextControls]_vars

\* Startup and every host event of a full page: frames, resizes between a
\* wide and a tall window, the mode toggle, and the loads of the first
\* MaxLoads pictures.
Settling == {p \in Pictures : p <= MaxLoads}

NextEvents ==
  \/ Startup
  \/ AnimateFrame
  \/ \E s \in {<<MaxDim, 1>>, <<1, MaxDim>>} : Resize(s[1], s[2])
  \/ ToggleChange
  \/ \E p \in Settling : LoadSuccess(p)
  \/ \E p \in Settling : LoadFailure(p)

SpecEvents == Init /\ [][NextEvents]_vars

\* Startup with the placement block in every order of its leading entries.
NextPlacement ==
  \/ Setup
  \/ AddLights
  \/ BuildRoom
  \/ \E i \in 1..Len(Placements(variant)) : PlaceAny(i)
  \/ AddPictureFrame
  \/ HideOverlay
  \/ RegisterToggle
  \/ StartAnimate
  \/ AnimateFrame

SpecPlacement == Init /\ [][NextPlacement]_vars

\* Repeated calls of one assembly constructor and changes of the instances.
NextBuilder ==
  \/ \E c \in ConstructorNames(variant) : Construct(c)
  \/ \E r \in Instances(heap) : MoveInstance(r)
  \/ \E r \in Instances(heap) : TurnInstance(r)
  \/ \E r \in Instances(heap) : ScaleInstance(r)
  \/ \E r \in Instances(heap) : RemoveMember(r)

SpecBuilder == InitOnePage /\ [][NextBuilder]_vars

----------------------------------------------------------------------------
(* Properties of the picture mounter *)

PicturePaths == {PictureCalls[p].path : p \in Pictures}

Mounted(p) == PictureCalls[p].path \in Ids(scene)

Loaded == {p \in Pictures : load[p] = "loaded"}

\* The children every startup adds to the world root before it returns.
SyncChildren(v) == Len(Lights(v)) + Len(RoomSlabs(v)) + Len(Placements(v))

\* The positions in a list of children at which the group of picture p sits.
NodesOf(children, p) ==
  {i \in 1..Len(children) : children[i].id = PictureCalls[p].path}

\* C1: a picture whose image load failed has no node in the scene, and the
\* world root holds exactly the children of startup and one group for every
\* load that succeeded: the failed call added nothing.
C1_FailedLoadAddsNothing ==
  \A p \in Pictures :
    load[p] = "error" =>
      /\ NodesOf(scene, p) = {}
      /\ Len(scene) = SyncChildren(variant) + Cardinality(Loaded)

C1_Witness ==
  /\ pc = "done"
  /\ \E p, q \in Pictures : load[p] = "error" /\ load[q] = "loaded"

\* C2: a picture whose image load succeeded has exactly one group directly
\* under the world root, with the picture plane and the frame box as its two
\* children, at the requested position and Y rotation.
C2_LoadedPictureMounted ==
  \A p \in Pictures :
    load[p] = "loaded" =>
      /\ Cardinality(NodesOf(scene, p)) = 1
      /\ \A i \in NodesOf(scene, p) :
           /\ scene[i].kind = "group"
           /\ Len(scene[i].children) = 2
           /\ Ids(scene[i].children) = {"picMesh", "frameMesh"}
           /\ scene[i].position = PictureCalls[p].position
           /\ scene[i].rotationY = PictureCalls[p].rotationY

C2_Witness ==
  /\ load[4] = "loaded"
  /\ \E i \in NodesOf(scene, 4) : scene[i].rotationY = -1

\* The stage of a deferred picture: 0 not requested, 1 requested and
\* pending, 2 mounted.
Phase(p) == IF Mounted(p) THEN 2 ELSE IF fetches[p] > 0 THEN 1 ELSE 0

\* C3: a deferred picture only moves forward through requested, pending and
\* mounted; its path is fetched once and never again, also after a failure;
\* a failed picture stays unmounted; a mounted picture has one node and is
\* never unmounted.
C3_PictureLifecycle ==
  [][\A p \in Pictures :
       /\ Phase(p)' >= Phase(p)
       /\ fetches'[p] <= 1
       /\ (fetches[p] = 1 => fetches'[p] = 1)
       /\ (pc' = "done" /\ variant = "nonmodule" => fetches'[p] = 1)
       /\ (load[p] = "error" => load'[p] = "error" /\ ~Mounted(p)')
       /\ (Mounted(p) => Mounted(p)' /\ load'[p] = "loaded")
       /\ Cardinality(NodesOf(scene', p)) <= 1]_vars

C3_Witness ==
  /\ pc = "done"
  /\ \E p, q, r \in Pictures :
       /\ Phase(p) = 2
       /\ Phase(q) = 1 /\ load[q] = "error"
       /\ Phase(r) = 1 /\ load[r] = "inflight"

\* The pictures whose load callback has not run.
Pending == {p \in Pictures : load[p] \in {"inflight", "error"}}

\* A render that shows none of the pending pictures.
PendingAbsent(r) == \A p \in Pending : NodesOf(r.scene, p) = {}

\* C4: pending picture loads never block the frame loop: once startup is
\* done a frame callback is always pending with the host, whatever the
\* loads do (some may never resolve), every run of animate is followed by
\* another, and what it rasterizes is the current scene, without the
\* pending pictures.
C4_PendingLoadsNeverBlockFrames ==
  /\ [](pc = "done" => rafPending > 0 /\ PendingAbsent(lastRender))
  /\ [][tick' # tick => lastRender'.scene = scene']_vars
  /\ \A b \in BOOLEAN :
       (pc = "done" /\ Pending # {} /\ tick = b) ~> (tick # b /\ PendingAbsent(lastRender))

C4_Witness ==
  /\ pc = "done"
  /\ tick = FALSE
  /\ \E p, q \in Pictures : load[p] = "inflight" /\ load[q] = "error"
  /\ lastRender.scene = scene
  /\ Len(scene) > SyncChildren(variant)

\* A complete picture group: both children, at the requested pose.
Complete(n, p) ==
  /\ n.kind = "group"
  /\ Len(n.children) = 2
  /\ n.children[1].id = "picMesh"
  /\ n.children[2].id = "frameMesh"
  /\ n.position = PictureCalls[p].position
  /\ n.rotationY = PictureCalls[p].rotationY

\* C5: every run of animate rasterizes the complete group of every picture
\* whose load callback has run, and nothing it rasterizes is a partly built
\* picture group.
C5_FramesSeeCompleteGroups ==
  [][tick' # tick =>
       \A p \in Pictures :
         /\ (load[p] = "loaded" => NodesOf(lastRender'.scene, p) # {})
         /\ \A i \in NodesOf(lastRender'.scene, p) : Complete(lastRender'.scene[i], p)]_vars

C5_Witness ==
  /\ pc = "done"
  /\ \E p \in Pictures :
       /\ load[p] = "loaded"
       /\ \E i \in NodesOf(lastRender.scene, p) : Complete(lastRender.scene[i], p)
  /\ \E q \in Pictures : load[q] = "loaded" /\ NodesOf(lastRender.scene, q) = {}

\* The picture groups among a list of children.
MountedGroups(children) ==
  {children[i] : i \in {j \in 1..Len(children) : children[j].id \in PicturePaths}}

\* C6: whatever the order in which the loads complete, the mounted picture
\* groups are those of the loads that succeeded, each at its own pose; no
\* two of them share a pose; and no step changes or removes a child the
\* world root already has.
C6_MountsAreIndependent ==
  [][/\ MountedGroups(scene') = {PictureGroup(PictureCalls[p]) : p \in Loaded'}
     /\ \A m, n \in MountedGroups(scene') :
          m.position = n.position /\ m.rotationY = n.rotationY => m = n
     /\ Len(scene') >= Len(scene)
     /\ \A i \in 1..Len(scene) : scene'[i] = scene[i]]_vars

C6_Witness ==
  /\ \E i, j \in 1..Len(scene) :
       /\ i < j
       /\ scene[i].id = PictureCalls[5].path
       /\ scene[j].id = PictureCalls[1].path
  /\ \E p \in Pictures : load[p] = "inflight"

----------------------------------------------------------------------------
(* Properties of the viewport harness *)

\* C7: the harness is idle until the first run of animate and running from
\* then on; once running it stays running with a frame callback pending, so
\* with a host that runs pending frame callbacks every run of animate is
\* followed by another.
C7_HarnessRunsForever ==
  /\ [](harness \in {"idle", "running"})
  /\ [](harness = "running" <=> pc = "done")
  /\ [][/\ (harness = "running" => harness' = "running")
        /\ (harness = "idle" /\ harness' = "running" => pc = "animate" /\ tick' # tick)
        /\ (harness' = "running" => rafPending' >= 1)]_vars
  /\ \A b \in BOOLEAN : (harness = "running" /\ tick = b) ~> (tick # b)

C7_Witness ==
  /\ harness = "running"
  /\ tick = FALSE
  /\ rafPending = 1

\* How often a call occurs in a frame log.
Calls(log, name) == Cardinality({i \in 1..Len(log) : log[i] = name})

\* The place of the first occurrence of a call in a frame log.
FirstCall(log, name) == CHOOSE i \in 1..Len(log) :
                          log[i] = name /\ \A j \in 1..(i - 1) : log[j] # name

\* C8: every run of animate makes exactly one controls update and then
\* exactly one render: the pending rotation is applied once and damped,
\* and what is rasterized is the current scene under the camera as the
\* update left it.
C8_UpdateThenRender ==
  [][tick' # tick =>
       /\ Calls(frameLog', "controls.update") = 1
       /\ Calls(frameLog', "renderer.render") = 1
       /\ FirstCall(frameLog', "controls.update") < FirstCall(frameLog', "renderer.render")
       /\ camera'.theta = (camera.theta + controls.thetaDelta) % OrbitSteps
       /\ Abs(controls'.thetaDelta) <= Abs(controls.thetaDelta)
       /\ (controls.thetaDelta # 0 => Abs(controls'.thetaDelta) < Abs(controls.thetaDelta))
       /\ controls'.scaleExp = 0
       /\ lastRender'.camera = camera'
       /\ lastRender'.target = controls'.target
       /\ lastRender'.scene = scene'
       /\ lastRender'.size = rendererSize']_vars

C8_Witness ==
  /\ pc = "done"
  /\ camera.theta # 0
  /\ controls.thetaDelta # 0
  /\ controls.target # 0
  /\ lastRender.camera = camera

\* C9: a resize to (w, h) leaves the camera's aspect and the aspect of its
\* projection matrix at exactly w / h and the output surface at (w, h), in
\* the same step, wherever the frame loop is; the next run of animate
\* renders with these values.
C9_ResizeUpdatesProjection ==
  [][/\ (win' # win =>
           /\ camera'.aspect[1] * win'[2] = camera'.aspect[2] * win'[1]
           /\ camera'.projAspect[1] * win'[2] = camera'.projAspect[2] * win'[1]
           /\ rendererSize' = win')
     /\ (tick' # tick =>
           /\ lastRender'.size = win
           /\ lastRender'.camera.projAspect[1] * win[2]
                = lastRender'.camera.projAspect[2] * win[1])]_vars

C9_Witness ==
  /\ pc = "done"
  /\ rendererSize = win
  /\ lastRender.size # win
  /\ lastRender.camera.projAspect # camera.projAspect
  /\ camera.projAspect = <<1, 2>>

\* C10: the squared distance between the camera and the orbit target stays
\* within the band of the variant, [5, 25] for the non-module and [3, 30]
\* for the module variant, from the initial pose on and under any orbit,
\* zoom and pan input and any number of frames.
C10_OrbitDistanceInBand ==
  /\ (variant = "nonmodule" => Sq100(5) <= camera.dist2 /\ camera.dist2 <= Sq100(25))
  /\ (variant = "module" => Sq100(3) <= camera.dist2 /\ camera.dist2 <= Sq100(30))

C10_Witness ==
  /\ pc = "done"
  /\ variant = "nonmodule"
  /\ camera.dist2 = Sq100(25)
  /\ controls.target # 0
  /\ camera.theta # 0

----------------------------------------------------------------------------
(* Properties of the scene graph *)

\* What a holder of instance r can observe of it: the objects of its
\* sub-tree with their parents, members and transforms.
View(h, r) == [o \in Descendants(h, r) |-> h[o]]

\* C11: two instances returned by calls of the same assembly constructor
\* share no group, mesh, geometry or material, and a change of the
\* position, rotation, scale or members of one instance leaves every other
\* instance as it was; a further call leaves the earlier instances as they
\* were.
C11_InstancesAreIndependent ==
  /\ [](\A r1, r2 \in Instances(heap) :
          r1 # r2 => Owned(heap, r1) \cap Owned(heap, r2) = {})
  /\ [][\A r1 \in Instances(heap) :
          View(heap', r1) # View(heap, r1)
          => /\ Instances(heap') = Instances(heap)
             /\ \A r2 \in Instances(heap) \ {r1} : View(heap', r2) = View(heap, r2)]_vars

C11_Witness ==
  /\ Cardinality(Instances(heap)) = MaxCalls
  /\ \E r1, r2 \in Instances(heap) :
       /\ r1 # r2
       /\ heap[r1].position # Fresh(r1).position
       /\ heap[r1].children # Fresh(r1).children
       /\ heap[r2] = Fresh(r2)

\* Every child listed by a parent names that parent, and no parent lists a
\* child twice.
ChildrenKnowParent(h) ==
  \A p \in DOMAIN h :
    \A i \in 1..Len(h[p].children) :
      /\ h[p].children[i] \in DOMAIN h
      /\ h[h[p].children[i]].parent = p
      /\ \A j \in 1..Len(h[p].children) : h[p].children[j] = h[p].children[i] => j = i

\* The parent of o, and the world root's own for the root.
Up(h, o) == IF o \in DOMAIN h /\ h[o].parent \in DOMAIN h THEN h[o].parent ELSE o

\* Object o hangs below the world root, at most three levels down.
Rooted(h, o) == SceneRoot \in {Up(h, o), Up(h, Up(h, o)), Up(h, Up(h, Up(h, o)))}

\* C12: in every reachable state the scene graph is a tree rooted at the
\* world root: the root has no parent, every other light, mesh and group
\* has exactly one parent, which lists it exactly once, and hangs below the
\* root; no object was attached more than once, so no instance and no
\* picture group sits in two places; the children of the root are the
\* children the scene shows, in order.
C12_SceneGraphIsTree ==
  SceneRoot \in DOMAIN heap =>
    /\ heap[SceneRoot].parent = None
    /\ ChildrenKnowParent(heap)
    /\ \A o \in DOMAIN heap \ {SceneRoot} :
         /\ heap[o].parent \in DOMAIN heap
         /\ \E i \in 1..Len(heap[heap[o].parent].children) :
              heap[heap[o].parent].children[i] = o
         /\ heap[o].adds = 1
         /\ heap[heap[o].parent].kind \in {"scene", "group"}
    /\ \A o \in DOMAIN heap \ {SceneRoot} : Rooted(heap, o)
    /\ [i \in 1..Len(heap[SceneRoot].children) |-> heap[SceneRoot].children[i][3]]
         = [i \in 1..Len(scene) |-> scene[i].id]

C12_Witness ==
  /\ pc = "done"
  /\ variant = "nonmodule"
  /\ Loaded = Pictures
  /\ Len(heap[SceneRoot].children) = SyncChildren(variant) + Cardinality(Pictures)
  /\ \E o \in DOMAIN heap : heap[o].parent # SceneRoot /\ heap[heap[o].parent].parent # SceneRoot
                             /\ heap[o].parent # None

\* The object that the single call of constructor c made for variable name.
Obj(c, name) == <<c, 1, name>>

C14_SceneFixedAfterStartup ==
  [][pc = "done" =>
       /\ DOMAIN heap \subseteq DOMAIN heap'
       /\ \A o \in DOMAIN heap \ {SceneRoot} : heap'[o] = heap[o]
       /\ [heap'[SceneRoot] EXCEPT !.children = <<>>]
            = [heap[SceneRoot] EXCEPT !.children = <<>>]
       /\ IF \E p \in Pictures : load'[p] = "loaded" /\ load[p] # "loaded"
          THEN /\ \E g \in DOMAIN heap' \ DOMAIN heap :
                    /\ heap'[SceneRoot].children = Append(heap[SceneRoot].children, g)
                    /\ DOMAIN heap' \ DOMAIN heap = Descendants(heap', g)
               /\ Len(scene') = Len(scene) + 1
               /\ SubSeq(scene', 1, Len(scene)) = scene
          ELSE heap' = heap /\ scene' = scene
       /\ (tick' # tick \/ win' # win) =>
            UNCHANGED <<variant, dom, pc, scene, heap, placed, load, fetches, harness,
                        overlayDisplay, display>>
       /\ display' # display =>
            UNCHANGED <<variant, dom, pc, win, scene, heap, placed, load, fetches, camera,
                        controls, rendererSize, harness, rafPending, tick, frameLog,
                        lastRender, overlayDisplay>>]_vars

C14_Witness ==
  /\ pc = "done"
  /\ win # <<MaxDim, 1>>
  /\ display.container = "none"
  /\ load[1] = "loaded"
  /\ load[2] = "error"
  /\ lastRender.size = win
  /\ lastRender.scene = scene
  /\ Len(scene) = SyncChildren(variant) + 1

\* The assemblies under the world root: <<assembly, world position,
\* rotation, scale>>.
PlacedEntries(h) ==
  {<<o[1], WorldPosition(h, o), h[o].rotationY, h[o].scale>> :
     o \in {r \in Instances(h) : h[r].parent = SceneRoot}}

\* The same entries for the placement block in the program's order.
ProgramEntries(v) ==
  {<<Placements(v)[i].id, Placements(v)[i].position, Placements(v)[i].rotationY,
     Placements(v)[i].scale>> : i \in 1..Len(Placements(v))}

\* C15: in whatever order the entries of the placement block are taken,
\* every assembly under the world root has the position, rotation and scale
\* the program's order gives it, and its members the same world positions;
\* once the block is through, the set of entries is the program's; and the
\* step that adds an assembly adds the complete result of its constructor.
C15_PlacementOrderIrrelevant ==
  /\ [](PlacedEntries(heap) \subseteq ProgramEntries(variant))
  /\ [](pc \notin {"start", "fault", "lights", "room", "place"}
          => /\ PlacedEntries(heap) = ProgramEntries(variant)
             /\ WorldPositions(SelectSeq(scene, LAMBDA n : n.id \in ConstructorNames(variant)),
                               Identity, "")
                  = WorldPositions(Placements(variant), Identity, ""))
  /\ [][\A c \in ConstructorNames(variant) :
          (Obj(c, c) \in DOMAIN heap' /\ heap'[Obj(c, c)].parent = SceneRoot
             /\ ~(Obj(c, c) \in DOMAIN heap /\ heap[Obj(c, c)].parent = SceneRoot))
          => /\ heap'[Obj(c, c)].children = Fresh(Obj(c, c)).children
             /\ Descendants(heap', Obj(c, c)) \cap DOMAIN heap = {}]_vars

C15_Witness ==
  /\ pc = "done"
  /\ Len(Placements(variant)) > 1
  /\ scene[Len(Lights(variant)) + Len(RoomSlabs(variant)) + 1].id = Placements(variant)[2].id
  /\ PlacedEntries(heap) = ProgramEntries(variant)

----------------------------------------------------------------------------
(* Properties of startup *)

\* C16: on a page without the container element the script stops at the
\* append of the canvas and nothing after it runs: the scene stays empty,
\* no assembly is built or placed, no picture is fetched, the overlay and
\* the surfaces are left alone, no frame callback is ever registered and
\* the harness stays idle; the faulted script takes no further step.
C16_NoContainerFaults ==
  /\ [](~dom.container =>
          /\ pc \in {"start", "fault"}
          /\ scene = <<>>
          /\ DOMAIN heap \subseteq {SceneRoot}
          /\ \A o \in DOMAIN heap : heap[o].children = <<>>
          /\ placed = 0
          /\ load = NoPictures
          /\ \A p \in Pictures : fetches[p] = 0
          /\ harness = "idle"
          /\ rafPending = 0
          /\ frameLog = <<>>
          /\ overlayDisplay = ""
          /\ display.container = "")
  /\ [](pc = "fault" => ~dom.container)
  /\ [][pc # "fault"]_vars

C16_Witness == pc = "fault" /\ ~dom.container /\ SceneRoot \in DOMAIN heap

\* The ids of the children every startup adds to the world root.
SyncIds(v) == Ids(Lights(v)) \cup Ids(RoomSlabs(v)) \cup Ids(Placements(v))

\* The script is past its last synchronous scene.add.
PastPlacement == pc \in {"pictures", "overlay", "toggle", "animate", "done"}

\* C17: in the non-module variant, whichever of the five images fail to
\* load, the world root holds, from the end of the placement block on, the
\* 19 children added synchronously (2 lights, 3 slabs, 14 placed objects)
\* and one group per picture loaded so far, between 19 and 24 children;
\* the number of children never decreases; and once startup is through the
\* harness runs with a frame callback pending, whatever the loads did.
C17_MissingImagesDegradeGracefully ==
  /\ []((variant = "nonmodule" /\ PastPlacement) =>
          /\ Len(Lights(variant)) = 2
          /\ Len(RoomSlabs(variant)) = 3
          /\ Len(Placements(variant)) = 14
          /\ Len(scene) = 19 + Cardinality(Loaded)
          /\ Len(heap[SceneRoot].children) = Len(scene)
          /\ Len(scene) \in 19..24
          /\ Ids(scene) = SyncIds(variant) \cup {PictureCalls[p].path : p \in Loaded})
  /\ [](pc = "done" => harness = "running" /\ rafPending >= 1)
  /\ [][Len(scene') >= Len(scene)]_vars

C17_Witness ==
  /\ pc = "done"
  /\ load[1] = "error" /\ load[2] = "loaded" /\ load[3] = "error"
  /\ load[4] = "loaded" /\ load[5] = "inflight"
  /\ Len(scene) = 21
  /\ lastRender.scene = scene

C19_OverlayHiddenAfterInit ==
  /\ [](overlayDisplay = "none" =>
          /\ dom.overlay
          /\ SyncIds(variant) \subseteq Ids(scene)
          /\ Len(Placements(variant)) = 14
          /\ \A p \in Pictures : fetches[p] = 1)
  /\ []((dom.overlay /\ (frameLog # <<>> \/ harness = "running"))
          => overlayDisplay = "none")
  /\ [](~dom.overlay => overlayDisplay = "")
  /\ [][pc = "overlay" =>
          /\ pc' = "toggle"
          /\ UNCHANGED <<variant, dom, win, scene, heap, placed, load, fetches, camera,
                         controls, rendererSize, harness, rafPending, tick, frameLog,
                         lastRender, display>>]_vars

C19_Witness ==
  /\ dom.overlay
  /\ overlayDisplay = "none"
  /\ pc = "toggle"
  /\ frameLog = <<>>

----------------------------------------------------------------------------
(* Properties of the layout *)

\* new THREE.BoxGeometry(1, 2.5, 1): the body of the fridge
FridgeBody == <<1000, 2500, 1000>>

\* new THREE.BoxGeometry(0.5, 0.6, 0.4): the body of the coffee machine
CoffeeMachineBody == <<500, 600, 400>>

\* The world extent along axis a of the box of the given size centred on
\* mesh o, below an unrotated assembly: <<lowest, highest>>.
Extent(h, o, size, a) ==
  LET half == ((size[a] * h[TopOf(h, o)].scale[a]) \div 1000) \div 2
  IN  <<WorldPosition(h, o)[a] - half, WorldPosition(h, o)[a] + half>>

\* C20: once the fridge and the coffee machine are placed, the lowest face
\* of the machine's body is at the height of the top face of the fridge's
\* body, and the centre of the machine's body lies over the footprint of
\* the fridge's body in x and z.
C20_MachineRestsOnFridge ==
  (Obj("fridge", "fridge") \in DOMAIN heap /\ Obj("coffeeMachine", "coffeeMachine") \in DOMAIN heap)
  => LET fridge == Obj("fridge", "body")
         machine == Obj("coffeeMachine", "body")
     IN  /\ Extent(heap, machine, CoffeeMachineBody, 2)[1]
              = Extent(heap, fridge, FridgeBody, 2)[2]
         /\ \A a \in {1, 3} :
              /\ Extent(heap, fridge, FridgeBody, a)[1] <= WorldPosition(heap, machine)[a]
              /\ WorldPosition(heap, machine)[a] <= Extent(heap, fridge, FridgeBody, a)[2]

\* new THREE.BoxGeometry(floorWidth, floorThickness, floorDepth): the floor
FloorSlab == <<9000, 150, 7000>>

\* new THREE.BoxGeometry(2.5, 0.02, 1.6): the rug
RugBox == <<2500, 20, 1600>>

\* C21: once the floor is built and the rug is scaled and placed, the top
\* face of the floor slab is at world y = 0 and the lower face of the rug
\* is not below it.
C21_RugNotBelowFloor ==
  (Obj("buildRoom", "floorMesh") \in DOMAIN heap /\ Obj("rug", "rug") \in DOMAIN heap)
  => /\ Extent(heap, Obj("buildRoom", "floorMesh"), FloorSlab, 2)[2] = 0
     /\ Extent(heap, Obj("rug", "rug"), RugBox, 2)[1]
          >= Extent(heap, Obj("buildRoom", "floorMesh"), FloorSlab, 2)[2]

----------------------------------------------------------------------------
(* Properties of the frame loop *)

\* C22: no frame callback is pending before the frame loop starts and
\* exactly one is pending in every state after it has: the loop is started
\* once, by the last statement of the script; each run of animate calls
\* requestAnimationFrame exactly once, before the controls update and the
\* render, and leaves one callback pending; a resize, a toggle change or a
\* picture load leaves the pending callbacks as they are.
C22_OneFramePending ==
  /\ [](harness = "idle" => rafPending = 0)
  /\ [](harness = "running" => rafPending = 1)
  /\ [][/\ (harness # harness' =>
              harness = "idle" /\ harness' = "running" /\ pc = "animate" /\ pc' = "done")
        /\ (pc = "done" => pc' = "done")
        /\ (tick' # tick =>
              /\ Calls(frameLog', "requestAnimationFrame") = 1
              /\ FirstCall(frameLog', "requestAnimationFrame")
                   < FirstCall(frameLog', "controls.update")
              /\ FirstCall(frameLog', "requestAnimationFrame")
                   < FirstCall(frameLog', "renderer.render")
              /\ rafPending' = 1)
        /\ (tick' = tick => rafPending' = rafPending)]_vars

C22_Witness ==
  /\ harness = "running"
  /\ rafPending = 1
  /\ tick = FALSE
  /\ win # <<MaxDim, 1>>
  /\ lastRender.size = win
  /\ display.container = "none"
  /\ load[1] = "loaded"
  /\ load[2] = "inflight"
  /\ lastRender.scene = scene

\* C23: the first run of animate is the one that ends the script, and no
\* load callback runs before the script has ended: what the first render
\* rasterizes is the scene with exactly the children startup added (19 in
\* the non-module variant), none of them a picture group, while each of the
\* five pictures has been fetched once and is still pending.
C23_FirstFrameHasNoPicture ==
  /\ [](pc # "done" =>
          /\ frameLog = <<>>
          /\ \A p \in Pictures : load[p] \in {"none", "inflight"}
          /\ Ids(scene) \cap PicturePaths = {})
  /\ [][(pc # "done" /\ pc' = "done") =>
          /\ pc = "animate"
          /\ tick' # tick
          /\ Calls(frameLog', "renderer.render") = 1
          /\ lastRender'.scene = scene
          /\ Ids(lastRender'.scene) = SyncIds(variant)
          /\ Len(lastRender'.scene) = SyncChildren(variant)
          /\ variant = "nonmodule" =>
               /\ Len(lastRender'.scene) = 19
               /\ \A p \in Pictures : load'[p] = "inflight" /\ fetches'[p] = 1]_vars

C23_Witness ==
  /\ variant = "nonmodule"
  /\ pc = "done"
  /\ tick = TRUE
  /\ \A p \in Pictures : load[p] = "inflight"
  /\ Len(lastRender.scene) = 19
  /\ Ids(lastRender.scene) \cap PicturePaths = {}
  /\ lastRender.size = win

====
